---------------------------- MODULE Spec2Model ----------------------------
(***************************************************************************)
(* Model of the cognitive-physics framework: the network, the memory       *)
(* module, the causality engine, the emergence detector and the meta-law   *)
(* synthesis engine (src/core_interface.py, src/meta_law_synthesis.py),    *)
(* and the table of example networks (src/example_networks.py).            *)
(*                                                                         *)
(* Numbers.  The program computes with floats.  Here S, D, M, strengths,   *)
(* densities and rates are fixed-point integers in thousandths (0.5 is     *)
(* 500), and a capacity S*D*M and a class threshold are integers in units  *)
(* of 10^-9 (0.003 is 3000000).  Products are exact; a quotient or a       *)
(* square root is truncated to the thousandth.  The (S, D, M) grids below  *)
(* hold only points on which the exact product and the program's double    *)
(* precision product fall on the same side of every bound they are         *)
(* compared with.  The factor of a decay is rounded to the thousandth, as  *)
(* the program rounds it to the double, so the greatest persistence below  *)
(* 1 has the factor 1.  A memory strength is truncated after every decay,  *)
(* so a long run of decays purges a key a few calls before the program     *)
(* does;                                                                   *)
(* an activation is truncated after every propagation step, and tanh is    *)
(* read from a table, which keeps a step within 0.002 of the program.      *)
(***************************************************************************)
EXTENDS Integers, Sequences, FiniteSets, TLC

VARIABLES
    network,      \* CognitiveNetwork: [nodes, edges]
    memory,       \* MemoryModule: [persistence, memories, proto_language]
    causality,    \* CausalityEngine: [events, current_density]
    predictions,  \* MetaLawSynthesis.predictions
    detection_history,  \* EmergenceDetector.detection_history
    args,         \* the arguments of the call under study (pure-function runs)
    ret           \* the last call: [op |-> its name, args |-> its arguments,
                  \*                 value |-> what it returned]

vars == <<network, memory, causality, predictions, detection_history, args, ret>>

--------------------------------------------------------------------------
(* Bounds of the model *)

MaxPredictions == 2
MaxBatch == 2
MaxLog == 4        \* events of a log whose chains are traced
MaxDepth == 3      \* greatest max_depth passed to get_causal_chain
MaxFree == 2       \* freely chosen events at the head of a long log
MaxEvents == 102   \* length of a long log; more than the density window
MaxEdges == 2      \* edges of a network handed to the engine

--------------------------------------------------------------------------
(* Python dictionaries and lists *)

\* dict.get(key, default)
get(d, key, default) == IF key \in DOMAIN d THEN d[key] ELSE default

EmptyDict == [x \in {} |-> 0]

RECURSIVE SumOver(_, _)
SumOver(f, keys) ==
    IF keys = {} THEN 0
    ELSE LET k == CHOOSE x \in keys : TRUE
         IN  f[k] + SumOver(f, keys \ {k})

MaxOver(f, keys) == CHOOSE v \in {f[k] : k \in keys} : \A k \in keys : f[k] <= v

Min(a, b) == IF a <= b THEN a ELSE b

\* floor of the square root of n >= 0, searched between lo and hi
RECURSIVE SqrtBetween(_, _, _)
SqrtBetween(n, lo, hi) ==
    IF lo >= hi THEN lo
    ELSE LET mid == (lo + hi + 1) \div 2
         IN  IF mid * mid <= n THEN SqrtBetween(n, mid, hi)
             ELSE SqrtBetween(n, lo, mid - 1)

\* math.sqrt, truncated
sqrt(n) == SqrtBetween(n, 0, 46340)

--------------------------------------------------------------------------
(* CognitiveNetwork *)

EmptyNetwork == [nodes |-> EmptyDict, edges |-> EmptyDict]

add_node(net, node_id, activation) ==
    [net EXCEPT !.nodes =
        [n \in DOMAIN net.nodes \cup {node_id} |->
            IF n = node_id THEN [activation |-> activation] ELSE net.nodes[n]]]

add_edge(net, src, dst, weight, causal_strength) ==
    [net EXCEPT !.edges =
        [e \in DOMAIN net.edges \cup {<<src, dst>>} |->
            IF e = <<src, dst>>
            THEN [weight |-> weight, causal_strength |-> causal_strength]
            ELSE net.edges[e]]]

\* math.tanh at 0.0, 0.1, ..., 4.1, in thousandths
TanhTable ==
    <<0, 100, 197, 291, 380, 462, 537, 604, 664, 716, 762, 800, 834, 862,
      885, 905, 922, 935, 947, 956, 964, 970, 976, 980, 984, 987, 989, 991,
      993, 994, 995, 996, 997, 997, 998, 998, 999, 999, 999, 999, 999, 999>>

\* math.tanh of x thousandths: odd, read from the table with linear
\* interpolation (within 0.002 of the function), 1.0 from 4.0 on
RECURSIVE tanh(_)
tanh(x) ==
    IF x < 0 THEN 0 - tanh(0 - x)
    ELSE IF x >= 4000 THEN 1000
    ELSE LET i == x \div 100
             r == x % 100
         IN  TanhTable[i + 1] + ((TanhTable[i + 2] - TanhTable[i + 1]) * r) \div 100

\* the body of propagate's inner loop for one node: the weighted sum of the
\* activations of the existing sources of its incoming edges, then
\* 0.9 * current + 0.1 * tanh(incoming)
new_activation(net, node_id) ==
    LET into == {e \in DOMAIN net.edges : e[2] = node_id /\ e[1] \in DOMAIN net.nodes}
        incoming ==
            SumOver([e \in into |-> net.nodes[e[1]].activation * net.edges[e].weight], into)
                \div 1000
    IN  (900 * net.nodes[node_id].activation + 100 * tanh(incoming)) \div 1000

RECURSIVE update_in_turn(_, _)
update_in_turn(net, todo) ==
    IF todo = {} THEN net
    ELSE LET n == CHOOSE x \in todo : TRUE
         IN  update_in_turn(
                 [net EXCEPT !.nodes[n] = [activation |-> new_activation(net, n)]],
                 todo \ {n})

\* a step that writes each activation as soon as it is computed
propagate_step_in_place(net) == update_in_turn(net, DOMAIN net.nodes)

\* one pass of propagate's outer loop: every new activation is computed
\* from the activations before the pass, then all are written
propagate_step(net) ==
    [net EXCEPT !.nodes =
        [n \in DOMAIN net.nodes |-> [activation |-> new_activation(net, n)]]]

\* CognitiveNetwork.propagate: `for _ in range(steps)`
RECURSIVE propagate(_, _)
propagate(net, steps) ==
    IF steps <= 0 THEN net ELSE propagate(propagate_step(net), steps - 1)

\* a distribution that reports every node, a node without edge as 0
get_degree_distribution_all_nodes(net) ==
    [n \in DOMAIN net.nodes |->
        Cardinality({e \in DOMAIN net.edges : e[1] = n \/ e[2] = n})]

\* the defaultdict `degrees`: one entry per node of `nodes` that some edge
\* touches; an edge adds one to a node when `src == node or dst == node`
get_degree_distribution(net) ==
    LET touching(n) == {e \in DOMAIN net.edges : e[1] = n \/ e[2] = n}
        scored == {n \in DOMAIN net.nodes : touching(n) # {}}
    IN  [n \in scored |-> Cardinality(touching(n))]

\* a differentiation that answers the neutral 0.5 for a network without
\* degrees
compute_structural_differentiation_neutral(net) ==
    LET degrees == get_degree_distribution(net)
        scored == DOMAIN degrees
        n == Cardinality(scored)
        T == SumOver(degrees, scored)
        Q == SumOver([k \in scored |-> degrees[k] * degrees[k]], scored)
    IN  IF scored = {} THEN 500
        ELSE LET cv == sqrt(1000000 * (n * Q - T * T)) \div T
                 max_degree == MaxOver(degrees, scored)
                 hub_score == Min(1000, (10000 * max_degree) \div (3 * n))
             IN  Min(1000, (cv + hub_score) \div 2)

\* a differentiation whose hub score divides by len(degrees) * 3
compute_structural_differentiation_flat(net) ==
    LET degrees == get_degree_distribution(net)
        scored == DOMAIN degrees
        n == Cardinality(scored)
        T == SumOver(degrees, scored)
        Q == SumOver([k \in scored |-> degrees[k] * degrees[k]], scored)
    IN  IF scored = {} THEN 0
        ELSE IF T = 0 THEN 0
        ELSE LET cv == sqrt(1000000 * (n * Q - T * T)) \div T
                 max_degree == MaxOver(degrees, scored)
                 hub_score == Min(1000, (1000 * max_degree) \div (3 * n))
             IN  Min(1000, (cv + hub_score) \div 2)

\* S in thousandths.  With n = len(degrees), T = sum(degrees) and
\* Q = sum of squares: variance = (n*Q - T*T) / n^2, so
\* cv = sqrt(n*Q - T*T) / T, and hub_score = min(1, max / (n * 0.3)).
compute_structural_differentiation(net) ==
    LET degrees == get_degree_distribution(net)
        scored == DOMAIN degrees
        n == Cardinality(scored)
        T == SumOver(degrees, scored)
        Q == SumOver([k \in scored |-> degrees[k] * degrees[k]], scored)
    IN  IF scored = {} THEN 0
        ELSE IF T = 0 THEN 0
        ELSE LET cv == sqrt(1000000 * (n * Q - T * T)) \div T
                 max_degree == MaxOver(degrees, scored)
                 hub_score == Min(1000, (10000 * max_degree) \div (3 * n))
             IN  Min(1000, (cv + hub_score) \div 2)

--------------------------------------------------------------------------
(* MemoryModule and CausalityEngine: the objects as constructed *)

NewMemory(persistence) ==
    [persistence |-> persistence, memories |-> EmptyDict, proto_language |-> <<>>]

\* MemoryModule.store: self.memories[key] = strength
store(mem, key, strength) ==
    [mem EXCEPT !.memories =
        [k \in DOMAIN mem.memories \cup {key} |->
            IF k = key THEN strength ELSE mem.memories[k]]]

\* recall that answers 1.0 for a key it does not hold
recall_full(mem, key) == get(mem.memories, key, 1000)

\* MemoryModule.recall: self.memories.get(key, 0.0)
recall(mem, key) == get(mem.memories, key, 0)

\* 1.0 - decay_rate * 0.1 in thousandths.  The program's subtraction rounds
\* to the nearest double; here it rounds to the nearest thousandth: for the
\* greatest persistence below 1 (0.999 here, 0.9999999999999999 in doubles)
\* the difference is not representable and the factor is 1.0
decay_factor(decay_rate) == (10000 - decay_rate + 5) \div 10

\* decay that also purges a strength of exactly 0.01
decay_purge_inclusive(mem) ==
    LET decay_rate == 1000 - mem.persistence
        faded == [k \in DOMAIN mem.memories |->
                     (mem.memories[k] * decay_factor(decay_rate)) \div 1000]
        to_remove == {k \in DOMAIN faded : faded[k] <= 10}
    IN  [mem EXCEPT !.memories = [k \in DOMAIN faded \ to_remove |-> faded[k]]]

\* MemoryModule.decay: every strength is multiplied by 1 - decay_rate * 0.1
\* (the product truncated to the thousandth), then the keys below 0.01 go
decay(mem) ==
    LET decay_rate == 1000 - mem.persistence
        faded == [k \in DOMAIN mem.memories |->
                     (mem.memories[k] * decay_factor(decay_rate)) \div 1000]
        to_remove == {k \in DOMAIN faded : faded[k] < 10}
    IN  [mem EXCEPT !.memories = [k \in DOMAIN faded \ to_remove |-> faded[k]]]

\* form_proto_language that appends without looking
form_proto_language_always(mem, pattern) ==
    [mem EXCEPT !.proto_language = Append(mem.proto_language, pattern)]

\* MemoryModule.form_proto_language
form_proto_language(mem, pattern) ==
    IF \E i \in 1..Len(mem.proto_language) : mem.proto_language[i] = pattern
    THEN mem
    ELSE [mem EXCEPT !.proto_language = Append(mem.proto_language, pattern)]

NewCausality == [events |-> <<>>, current_density |-> 0]

--------------------------------------------------------------------------
(* MetaLawSynthesis *)

UniversalityClass ==
    {"grammar_structural", "fast_propagation", "slow_memory", "dense_dynamical"}

\* mutant: every threshold a tenth of its value, below the bound 0.001
CLASS_THRESHOLDS_tenth ==
    [c \in UniversalityClass |->
        CASE c = "grammar_structural" -> 300000
          [] c = "fast_propagation"   -> 500000
          [] c = "slow_memory"        -> 700000
          [] c = "dense_dynamical"    -> 1000000]

\* mutant: every threshold ten times its value
CLASS_THRESHOLDS_tenfold ==
    [c \in UniversalityClass |->
        CASE c = "grammar_structural" -> 30000000
          [] c = "fast_propagation"   -> 50000000
          [] c = "slow_memory"        -> 70000000
          [] c = "dense_dynamical"    -> 100000000]

\* thresholds in units of 10^-9: 0.003, 0.005, 0.007, 0.010
CLASS_THRESHOLDS ==
    [c \in UniversalityClass |->
        CASE c = "grammar_structural" -> 3000000
          [] c = "fast_propagation"   -> 5000000
          [] c = "slow_memory"        -> 7000000
          [] c = "dense_dynamical"    -> 10000000]

\* the registry, in the order the dictionary literal lists it
LAWS ==
    << [id |-> "structural_morality",        name |-> "Structural Morality"],
       [id |-> "observation_independence",   name |-> "Observation Independence"],
       [id |-> "causal_time",                name |-> "Causal Time"],
       [id |-> "memory_persistence",         name |-> "Memory Persistence Law"],
       [id |-> "structural_differentiation", name |-> "Structural Differentiation"] >>

\* mutant: the bounds of the laws included
condition_inclusive(law_id, s, d, m) ==
    CASE law_id = "structural_morality"        -> s >= 300 /\ d >= 200
      [] law_id = "observation_independence"   -> s * d * m >= 1000000
      [] law_id = "causal_time"                -> d >= 150
      [] law_id = "memory_persistence"         -> m >= 20
      [] law_id = "structural_differentiation" -> s >= 400

\* law["condition"](s, d, m)
condition(law_id, s, d, m) ==
    CASE law_id = "structural_morality"        -> s > 300 /\ d > 200
      [] law_id = "observation_independence"   -> s * d * m > 1000000
      [] law_id = "causal_time"                -> d > 150
      [] law_id = "memory_persistence"         -> m > 20
      [] law_id = "structural_differentiation" -> s > 400

\* mutant: the slow-memory rule tried before the others
classify_memory_first(S, D, M) ==
    IF M > 80 THEN "slow_memory"
    ELSE IF S > 500 /\ D < 500 THEN "grammar_structural"
    ELSE IF S > 600 /\ M < 50 THEN "fast_propagation"
    ELSE IF S < 300 /\ D > 500 THEN "dense_dynamical"
    ELSE "grammar_structural"

classify_universality_class(S, D, M) ==
    IF S > 500 /\ D < 500 THEN "grammar_structural"
    ELSE IF S > 600 /\ M < 50 THEN "fast_propagation"
    ELSE IF M > 80 THEN "slow_memory"
    ELSE IF S < 300 /\ D > 500 THEN "dense_dynamical"
    ELSE "grammar_structural"

compute_capacity(S, D, M) == S * D * M

RECURSIVE ActiveFrom(_, _, _, _)
ActiveFrom(laws, S, D, M) ==
    IF laws = <<>> THEN <<>>
    ELSE LET law == Head(laws)
             rest == ActiveFrom(Tail(laws), S, D, M)
         IN  IF condition(law.id, S, D, M) THEN <<law.name>> \o rest ELSE rest

get_active_laws(S, D, M) == ActiveFrom(LAWS, S, D, M)

\* mutant: the alias key looked up first
resolve_alias_first(params, direct, alias, default) ==
    get(params, alias, get(params, direct, default))

\* params.get(direct, params.get(alias, default))
resolve(params, direct, alias, default) ==
    get(params, direct, get(params, alias, default))

\* mutant: the boundary excluded
phi_strict(capacity, threshold) == IF capacity > threshold THEN 1 ELSE 0

\* 1 if capacity >= threshold else 0
phi(capacity, threshold) == IF capacity >= threshold THEN 1 ELSE 0

\* the CognitiveState that predict builds from params
predict_state(params) ==
    LET S0 == resolve(params, "S", "structural_differentiation", 500)
        D == resolve(params, "D", "causal_density", 300)
        M == resolve(params, "M", "memory_persistence", 50)
        S == IF "network" \in DOMAIN params
             THEN compute_structural_differentiation(params["network"])
             ELSE S0
        uni_class == classify_universality_class(S, D, M)
        threshold == CLASS_THRESHOLDS[uni_class]
        capacity == compute_capacity(S, D, M)
    IN  [S |-> S, D |-> D, M |-> M, capacity |-> capacity,
         phi |-> phi(capacity, threshold),
         universality_class |-> uni_class, threshold |-> threshold,
         active_laws |-> get_active_laws(S, D, M)]

\* mutant: the new record put at the front of the history
predict_prepend(preds, params) ==
    LET state == predict_state(params)
    IN  [predictions |-> <<state>> \o preds, value |-> state]

\* predict on an engine whose history is preds: the history after the call
\* and the value returned
predict(preds, params) ==
    LET state == predict_state(params)
    IN  [predictions |-> Append(preds, state), value |-> state]

\* mutant: M taken from the strongest stored memory when there is one
predict_from_network_stored(preds, net, mem, caus) ==
    LET S == compute_structural_differentiation(net)
        D == caus.current_density
        M == IF DOMAIN mem.memories = {} THEN mem.persistence
             ELSE MaxOver(mem.memories, DOMAIN mem.memories)
    IN  predict(preds, [x \in {"S", "D", "M"} |->
                           CASE x = "S" -> S [] x = "D" -> D [] x = "M" -> M])

predict_from_network(preds, net, mem, caus) ==
    LET S == compute_structural_differentiation(net)
        D == caus.current_density
        M == mem.persistence
    IN  predict(preds, [x \in {"S", "D", "M"} |->
                           CASE x = "S" -> S [] x = "D" -> D [] x = "M" -> M])

\* mutant: the returned list built back to front
RECURSIVE batch_predict_reversed(_, _)
batch_predict_reversed(preds, param_list) ==
    IF param_list = <<>> THEN [predictions |-> preds, value |-> <<>>]
    ELSE LET first == predict(preds, Head(param_list))
             rest == batch_predict_reversed(first.predictions, Tail(param_list))
         IN  [predictions |-> rest.predictions,
              value |-> rest.value \o <<first.value>>]

\* [self.predict(params) for params in param_list]
RECURSIVE batch_predict(_, _)
batch_predict(preds, param_list) ==
    IF param_list = <<>> THEN [predictions |-> preds, value |-> <<>>]
    ELSE LET first == predict(preds, Head(param_list))
             rest == batch_predict(first.predictions, Tail(param_list))
         IN  [predictions |-> rest.predictions,
              value |-> <<first.value>> \o rest.value]

\* mutant: every record counted as cognitive
get_summary_all(preds) ==
    IF preds = <<>>
    THEN [total |-> 0, cognitive |-> 0, non_cognitive |-> 0]
    ELSE [total |-> Len(preds), cognitive |-> Len(preds), non_cognitive |-> 0,
          cognitive_rate |-> 1000]

get_summary(preds) ==
    IF preds = <<>>
    THEN [total |-> 0, cognitive |-> 0, non_cognitive |-> 0]
    ELSE LET cognitive == Cardinality({i \in 1..Len(preds) : preds[i].phi = 1})
         IN  [total |-> Len(preds), cognitive |-> cognitive,
              non_cognitive |-> Len(preds) - cognitive,
              cognitive_rate |-> (1000 * cognitive) \div Len(preds)]

--------------------------------------------------------------------------
(* CausalityEngine *)

WINDOW == 100

\* sum(e[2] for e in recent[lo..hi]), by halves
RECURSIVE StrengthBetween(_, _, _)
StrengthBetween(recent, lo, hi) ==
    IF lo > hi THEN 0
    ELSE IF lo = hi THEN recent[lo][3]
    ELSE LET mid == (lo + hi) \div 2
         IN  StrengthBetween(recent, lo, mid) + StrengthBetween(recent, mid + 1, hi)

total_strength(recent) == StrengthBetween(recent, 1, Len(recent))

\* mutant: no window, every event of the log counted
Recent_all(events) == events

\* self.events[-100:]
Recent(events) ==
    IF Len(events) <= WINDOW THEN events
    ELSE SubSeq(events, Len(events) - WINDOW + 1, Len(events))

\* the value _update_density leaves in current_density
update_density(events) ==
    IF Len(events) = 0 THEN 0
    ELSE LET recent == Recent(events)
             len == IF Len(recent) >= 1 THEN Len(recent) ELSE 1
         IN  Min(1000, total_strength(recent) \div len)

register_event(caus, src, dst, strength) ==
    LET events == Append(caus.events, <<src, dst, strength>>)
    IN  [events |-> events, current_density |-> update_density(events)]

\* [dst for src, dst, _ in self.events if src == current]
next_nodes(events, current) ==
    LET out == SelectSeq(events, LAMBDA e : e[1] = current)
    IN  [i \in 1..Len(out) |-> out[i][2]]

\* mutant: the first registered outgoing event followed
RECURSIVE chain_from_first(_, _, _, _)
chain_from_first(events, chain, current, depth) ==
    IF depth <= 0 THEN chain
    ELSE LET nxt == next_nodes(events, current)
         IN  IF nxt = <<>> THEN chain
             ELSE chain_from_first(events, Append(chain, nxt[1]), nxt[1], depth - 1)

\* the loop of get_causal_chain with `depth` iterations left
RECURSIVE chain_from(_, _, _, _)
chain_from(events, chain, current, depth) ==
    IF depth <= 0 THEN chain
    ELSE LET nxt == next_nodes(events, current)
         IN  IF nxt = <<>> THEN chain
             ELSE chain_from(events, Append(chain, nxt[Len(nxt)]),
                             nxt[Len(nxt)], depth - 1)

get_causal_chain(caus, start, max_depth) ==
    chain_from(caus.events, <<start>>, start, max_depth)

--------------------------------------------------------------------------
(* EmergenceDetector *)

\* the emergences of a detector for which five stored keys are enough
detect_from_five(net, mem, caus) ==
    LET degrees == get_degree_distribution(net)
        scored == DOMAIN degrees
        n == Cardinality(scored)
        hub ==
            IF scored # {} /\ MaxOver(degrees, scored) * n > 2 * SumOver(degrees, scored)
            THEN <<[type |-> "structural_hub",
                    strength |-> (1000 * MaxOver(degrees, scored)) \div n]>>
            ELSE <<>>
        coherence ==
            IF caus.current_density > 200
            THEN <<[type |-> "causal_coherence", strength |-> caus.current_density]>>
            ELSE <<>>
        persistent ==
            IF Cardinality(DOMAIN mem.memories) >= 5
            THEN <<[type |-> "memory_persistence",
                    strength |-> 100 * Cardinality(DOMAIN mem.memories)]>>
            ELSE <<>>
        language ==
            IF Len(mem.proto_language) > 0
            THEN <<[type |-> "proto_language", strength |-> 200 * Len(mem.proto_language)]>>
            ELSE <<>>
    IN  hub \o coherence \o persistent \o language

\* the list `emergences` of EmergenceDetector.detect.  With n = len(degrees)
\* and T = sum(degrees), max_degree > avg_degree * 2 is max_degree * n > 2 * T;
\* the strengths are max_degree / n, current_density, len(memories) / 10
\* and len(proto_language) / 5
detect(net, mem, caus) ==
    LET degrees == get_degree_distribution(net)
        scored == DOMAIN degrees
        n == Cardinality(scored)
        hub ==
            IF scored # {} /\ MaxOver(degrees, scored) * n > 2 * SumOver(degrees, scored)
            THEN <<[type |-> "structural_hub",
                    strength |-> (1000 * MaxOver(degrees, scored)) \div n]>>
            ELSE <<>>
        coherence ==
            IF caus.current_density > 200
            THEN <<[type |-> "causal_coherence", strength |-> caus.current_density]>>
            ELSE <<>>
        persistent ==
            IF Cardinality(DOMAIN mem.memories) > 5
            THEN <<[type |-> "memory_persistence",
                    strength |-> 100 * Cardinality(DOMAIN mem.memories)]>>
            ELSE <<>>
        language ==
            IF Len(mem.proto_language) > 0
            THEN <<[type |-> "proto_language", strength |-> 200 * Len(mem.proto_language)]>>
            ELSE <<>>
    IN  hub \o coherence \o persistent \o language

\* self.detection_history.append({"emergences": ..., "count": ...})
record_detection(history, emergences) ==
    Append(history, [emergences |-> emergences, count |-> Len(emergences)])

--------------------------------------------------------------------------
(* Inputs *)

NodeIds == {"node_0", "node_1", "node_2"}


RECURSIVE AddNodes(_, _)
AddNodes(net, ids) ==
    IF ids = {} THEN net
    ELSE LET n == CHOOSE x \in ids : TRUE
         IN  AddNodes(add_node(net, n, 0), ids \ {n})

RECURSIVE AddEdges(_, _)
AddEdges(net, pairs) ==
    IF pairs = {} THEN net
    ELSE LET e == CHOOSE x \in pairs : TRUE
         IN  AddEdges(add_edge(net, e[1], e[2], 500, 500), pairs \ {e})

\* the networks add_node and add_edge build over NodeIds: any set of nodes
\* and, endpoints existing or not, any set of at most MaxEdges edges
Networks ==
    {AddEdges(AddNodes(EmptyNetwork, ids), pairs) :
        ids \in SUBSET NodeIds,
        pairs \in {es \in SUBSET (NodeIds \X NodeIds) : Cardinality(es) <= MaxEdges}}

\* node_0 connected to each other node
HubNetwork ==
    AddEdges(AddNodes(EmptyNetwork, NodeIds),
             {<<"node_0", n>> : n \in NodeIds \ {"node_0"}})

\* causality engines after zero, one or two register_event calls
EventInputs == {<<"a", "b", 0>>, <<"a", "b", 600>>, <<"b", "c", 2500>>}

Causalities ==
    {NewCausality}
    \cup {register_event(NewCausality, e[1], e[2], e[3]) : e \in EventInputs}
    \cup {register_event(register_event(NewCausality, e[1], e[2], e[3]), f[1], f[2], f[3]) :
             e \in EventInputs, f \in EventInputs}

\* a params dictionary holding S, D and M under their direct keys
SDM(s, d, m) ==
    [x \in {"S", "D", "M"} |-> CASE x = "S" -> s [] x = "D" -> d [] x = "M" -> m]

\* the parameter sets the engine's history is driven with
GridS == {-200, 200, 500, 700}
GridD == {300, 600}
GridM == {20, 100}
Grid == {SDM(s, d, m) : s \in GridS, d \in GridD, m \in GridM}

\* the wide grid of the pure-function runs: every bound of the classification
\* rules and of the laws, a value on each side of it, and values out of [0, 1]
WideS == {-200, 0, 200, 300, 400, 500, 600, 700, 800, 1000, 1500}
WideD == {-500, 0, 150, 200, 300, 400, 500, 600, 800, 1000}
WideM == {0, 10, 20, 30, 50, 60, 80, 100, 600}
WideGrid == {SDM(s, d, m) : s \in WideS, d \in WideD, m \in WideM}

\* dictionaries that give each of S, D, M under its direct key, under its
\* alias, under both or under neither, with or without a network
KeyChoices(direct, alias, v, w) ==
    {EmptyDict, direct :> v, alias :> w, (direct :> v) @@ (alias :> w)}

KeyedParams ==
    {s @@ d @@ m @@ n :
        s \in KeyChoices("S", "structural_differentiation", 700, 200),
        d \in KeyChoices("D", "causal_density", 600, 200),
        m \in KeyChoices("M", "memory_persistence", 100, 20),
        n \in {EmptyDict} \cup {"network" :> net : net \in {EmptyNetwork, HubNetwork}}}

NoCall == [op |-> "none", args |-> <<>>, value |-> 0]
NoArgs == [kind |-> "none"]

--------------------------------------------------------------------------
(* The synthesis engine: one action per method *)

Predict(params) ==
    /\ Len(predictions) < MaxPredictions
    /\ LET r == predict(predictions, params)
       IN  /\ predictions' = r.predictions
           /\ ret' = [op |-> "predict", args |-> <<params>>, value |-> r.value]
    /\ UNCHANGED <<network, memory, causality, detection_history, args>>

PredictFromNetwork ==
    /\ Len(predictions) < MaxPredictions
    /\ LET r == predict_from_network(predictions, network, memory, causality)
       IN  /\ predictions' = r.predictions
           /\ ret' = [op |-> "predict_from_network", args |-> <<>>, value |-> r.value]
    /\ UNCHANGED <<network, memory, causality, detection_history, args>>

BatchPredict(param_list) ==
    /\ Len(predictions) + Len(param_list) <= MaxPredictions
    /\ LET r == batch_predict(predictions, param_list)
       IN  /\ predictions' = r.predictions
           /\ ret' = [op |-> "batch_predict", args |-> <<param_list>>, value |-> r.value]
    /\ UNCHANGED <<network, memory, causality, detection_history, args>>

GetSummary ==
    /\ ret' = [op |-> "get_summary", args |-> <<>>, value |-> get_summary(predictions)]
    /\ UNCHANGED <<network, memory, causality, predictions, detection_history, args>>

GetActiveLaws(S, D, M) ==
    /\ ret' = [op |-> "get_active_laws", args |-> <<S, D, M>>,
               value |-> get_active_laws(S, D, M)]
    /\ UNCHANGED <<network, memory, causality, predictions, detection_history, args>>

ClassifyUniversalityClass(S, D, M) ==
    /\ ret' = [op |-> "classify_universality_class", args |-> <<S, D, M>>,
               value |-> classify_universality_class(S, D, M)]
    /\ UNCHANGED <<network, memory, causality, predictions, detection_history, args>>

--------------------------------------------------------------------------
(* The engine and its history.  The components handed to                   *)
(* predict_from_network are built by the caller before the engine is used. *)

BuiltMemory ==
    [persistence |-> 100, memories |-> [k \in {"k1"} |-> 1000], proto_language |-> <<"hub">>]

Init ==
    /\ predictions = <<>>
    /\ detection_history = <<>>
    /\ ret = NoCall
    /\ args = NoArgs
    /\ \/ /\ network = EmptyNetwork
          /\ memory = NewMemory(50)
          /\ causality = NewCausality
       \/ /\ network = HubNetwork
          /\ memory = BuiltMemory
          /\ causality = register_event(NewCausality, "a", "b", 600)

BatchLists ==
    UNION {[1..k -> Grid] : k \in 0..MaxBatch}

LawProbes == {<<200, 300, 20>>, <<600, 500, 100>>}

Next ==
    \/ \E params \in Grid : Predict(params)
    \/ PredictFromNetwork
    \/ \E param_list \in BatchLists : BatchPredict(param_list)
    \/ GetSummary
    \/ \E p \in LawProbes : GetActiveLaws(p[1], p[2], p[3])

Spec == Init /\ [][Next]_vars

--------------------------------------------------------------------------
(* Pure-function runs: Init draws the arguments, one call is applied to a  *)
(* freshly constructed engine.                                             *)

FnMemories ==
    {[persistence |-> p, memories |-> c[1], proto_language |-> c[2]] :
        p \in {0, 50, 1000},
        c \in {<<EmptyDict, <<>> >>,
               <<[k \in {"k1", "k2"} |-> IF k = "k1" THEN 500 ELSE 8], <<"hub">> >>}}

InitFn ==
    /\ predictions = <<>>
    /\ detection_history = <<>>
    /\ ret = NoCall
    /\ \/ /\ args \in {[kind |-> "params", params |-> p] : p \in WideGrid \cup KeyedParams}
          /\ network = EmptyNetwork
          /\ memory = NewMemory(50)
          /\ causality = NewCausality
       \/ /\ args = [kind |-> "components"]
          /\ network \in Networks
          /\ memory \in FnMemories
          /\ causality \in Causalities

CallPredict ==
    /\ ret.op = "none"
    /\ args.kind = "params"
    /\ Predict(args.params)

CallClassify ==
    /\ ret.op = "none"
    /\ args.kind = "params"
    /\ DOMAIN args.params = {"S", "D", "M"}
    /\ ClassifyUniversalityClass(args.params["S"], args.params["D"], args.params["M"])

CallGetActiveLaws ==
    /\ ret.op = "none"
    /\ args.kind = "params"
    /\ DOMAIN args.params = {"S", "D", "M"}
    /\ GetActiveLaws(args.params["S"], args.params["D"], args.params["M"])

CallPredictFromNetwork ==
    /\ ret.op = "none"
    /\ args.kind = "components"
    /\ PredictFromNetwork

NextFn ==
    \/ CallPredict
    \/ CallClassify
    \/ CallGetActiveLaws
    \/ CallPredictFromNetwork

SpecFn == InitFn /\ [][NextFn]_vars

--------------------------------------------------------------------------
(* Properties of the synthesis engine *)

\* the threshold table as the specification gives it, in units of 10^-9
TableThreshold(class) ==
    CASE class = "grammar_structural" -> 3000000
      [] class = "fast_propagation"   -> 5000000
      [] class = "slow_memory"        -> 7000000
      [] class = "dense_dynamical"    -> 10000000

\* C1: every record of the prediction history is self-consistent: capacity
\* is S*D*M, threshold is the table entry of its universality class, and phi
\* is 1 exactly when capacity >= threshold (0 otherwise), also for inputs
\* outside [0, 1].
C1_RecordSelfConsistent ==
    \A i \in 1..Len(predictions) :
        LET r == predictions[i]
        IN  /\ r.capacity = r.S * r.D * r.M
            /\ r.universality_class \in UniversalityClass
            /\ r.threshold = TableThreshold(r.universality_class)
            /\ r.phi \in {0, 1}
            /\ (r.phi = 1) <=> (r.capacity >= r.threshold)

\* a record whose capacity equals its threshold, followed by one with S < 0
C1_Witness ==
    /\ Len(predictions) = 2
    /\ predictions[1].capacity = predictions[1].threshold
    /\ predictions[1].phi = 1
    /\ predictions[2].S < 0
    /\ predictions[2].phi = 0

\* the class of the first matching rule, each rule stated with the failure
\* of the rules before it
FirstMatch(S, D, M) ==
    LET r1 == S > 500 /\ D < 500
        r2 == S > 600 /\ M < 50
        r3 == M > 80
        r4 == S < 300 /\ D > 500
    IN  CASE r1                           -> "grammar_structural"
          [] ~r1 /\ r2                    -> "fast_propagation"
          [] ~r1 /\ ~r2 /\ r3             -> "slow_memory"
          [] ~r1 /\ ~r2 /\ ~r3 /\ r4      -> "dense_dynamical"
          [] ~r1 /\ ~r2 /\ ~r3 /\ ~r4     -> "grammar_structural"

\* C2: classify_universality_class returns the class of the first matching
\* rule in the fixed order, with strict comparisons, one of the four classes
\* for every input; the three examples of the specification come out as
\* stated.  The class of a predicted record is that of its S, D, M.
C2_FirstMatchWins ==
    /\ ret.op = "classify_universality_class" =>
          /\ ret.value = FirstMatch(ret.args[1], ret.args[2], ret.args[3])
          /\ ret.value \in UniversalityClass
          /\ ret.args = <<800, 400, 30>> => ret.value = "grammar_structural"
          /\ ret.args = <<200, 800, 30>> => ret.value = "dense_dynamical"
          /\ ret.args = <<400, 600, 50>> => ret.value = "grammar_structural"
    /\ ret.op = "predict" =>
          ret.value.universality_class =
              FirstMatch(ret.value.S, ret.value.D, ret.value.M)

\* an input satisfying rule 1 and rule 3 classified by rule 1
C2_Witness ==
    /\ ret.op = "classify_universality_class"
    /\ ret.args[1] > 500 /\ ret.args[2] < 500 /\ ret.args[3] > 80
    /\ ret.value = "grammar_structural"

LawNames ==
    <<"Structural Morality", "Observation Independence", "Causal Time",
      "Memory Persistence Law", "Structural Differentiation">>

LawHolds(name, S, D, M) ==
    CASE name = "Structural Morality"        -> S > 300 /\ D > 200
      [] name = "Observation Independence"   -> S * D * M > 1000000
      [] name = "Causal Time"                -> D > 150
      [] name = "Memory Persistence Law"     -> M > 20
      [] name = "Structural Differentiation" -> S > 400

\* laws is exactly the list of the laws that hold, in registration order
ExactlyTheLaws(laws, S, D, M) ==
    /\ \A k \in 1..Len(LawNames) :
          (\E i \in 1..Len(laws) : laws[i] = LawNames[k])
              <=> LawHolds(LawNames[k], S, D, M)
    /\ \A i \in 1..Len(laws) : \E k \in 1..Len(LawNames) : laws[i] = LawNames[k]
    /\ \A i, j \in 1..Len(laws) :
          i < j => \E k, l \in 1..Len(LawNames) :
                      k < l /\ laws[i] = LawNames[k] /\ laws[j] = LawNames[l]

\* C3: active_laws is exactly the list of the laws whose predicate holds,
\* each law decided on its own, in registration order without duplicates;
\* (0.6, 0.5, 0.1) activates Structural Differentiation and Causal Time.
C3_ActiveLawsExact ==
    /\ ret.op = "get_active_laws" =>
          /\ ExactlyTheLaws(ret.value, ret.args[1], ret.args[2], ret.args[3])
          /\ ret.args = <<600, 500, 100>> =>
                \E i, j \in 1..Len(ret.value) :
                    /\ ret.value[i] = "Structural Differentiation"
                    /\ ret.value[j] = "Causal Time"
    /\ ret.op = "predict" =>
          ExactlyTheLaws(ret.value.active_laws, ret.value.S, ret.value.D, ret.value.M)

\* S*D*M on the bound of Observation Independence and D on the bound of
\* Structural Morality: those two are off, the laws after them are on
C3_Witness ==
    /\ ret.op = "predict"
    /\ ret.value.S * ret.value.D * ret.value.M = 1000000
    /\ ret.value.D = 200
    /\ ret.value.active_laws = <<"Causal Time", "Structural Differentiation">>

\* C4: a predict or predict_from_network call appends exactly one record
\* at the end of the history and returns that record; batch_predict of k
\* parameter sets appends k records in input order and returns them in that
\* order; no other call changes the length of the history.
C4_AppendInCallOrder ==
    [][ /\ ret'.op \in {"predict", "predict_from_network"} =>
              /\ Len(predictions') = Len(predictions) + 1
              /\ predictions' = Append(predictions, ret'.value)
        /\ ret'.op = "predict" =>
              /\ ret'.value.S = ret'.args[1]["S"]
              /\ ret'.value.D = ret'.args[1]["D"]
              /\ ret'.value.M = ret'.args[1]["M"]
        /\ ret'.op = "batch_predict" =>
              LET param_list == ret'.args[1]
              IN  /\ Len(ret'.value) = Len(param_list)
                  /\ predictions' = predictions \o ret'.value
                  /\ \A i \in 1..Len(param_list) :
                        /\ ret'.value[i].S = param_list[i]["S"]
                        /\ ret'.value[i].D = param_list[i]["D"]
                        /\ ret'.value[i].M = param_list[i]["M"]
        /\ ret'.op \in {"get_summary", "get_active_laws"} =>
              Len(predictions') = Len(predictions)
      ]_vars

\* a batch of one appended after a different single prediction
C4_Witness ==
    /\ ret.op = "batch_predict"
    /\ Len(ret.value) = 1
    /\ Len(predictions) = 2
    /\ predictions[2] = ret.value[1]
    /\ predictions[1] # predictions[2]

\* a batch of two different parameter sets on an empty history
C4_WitnessBatch ==
    /\ ret.op = "batch_predict"
    /\ Len(ret.value) = 2
    /\ ret.value[1] # ret.value[2]
    /\ predictions = ret.value

\* C5: once a record is in the history, no operation of the engine changes
\* any of its fields or its position, and no record is removed.
C5_RecordsImmutable ==
    [][ \A i \in 1..Len(predictions) :
            /\ i <= Len(predictions')
            /\ predictions'[i] = predictions[i]
      ]_vars

\* two different records in the history and a later call made after them
C5_Witness ==
    /\ Len(predictions) = 2
    /\ predictions[1] # predictions[2]
    /\ ret.op \in {"get_summary", "get_active_laws"}

\* the value predict must resolve for a parameter: direct key, else alias,
\* else default
Resolved(p, direct, alias, default) ==
    IF direct \in DOMAIN p THEN p[direct]
    ELSE IF alias \in DOMAIN p THEN p[alias]
    ELSE default

\* C6: predict resolves S, D, M by direct key, else alias key, else default
\* (0.5, 0.3, 0.05); with a "network" key S is
\* compute_structural_differentiation(network) whatever S or alias is given,
\* and D and M are still resolved from the params.
C6_ParameterPrecedence ==
    ret.op = "predict" =>
        LET p == ret.args[1]
            r == ret.value
        IN  /\ r.D = Resolved(p, "D", "causal_density", 300)
            /\ r.M = Resolved(p, "M", "memory_persistence", 50)
            /\ r.S = IF "network" \in DOMAIN p
                     THEN compute_structural_differentiation(p["network"])
                     ELSE Resolved(p, "S", "structural_differentiation", 500)

\* S and its alias both given and overridden by a network, D given by its
\* alias only, M absent
C6_Witness ==
    /\ ret.op = "predict"
    /\ {"network", "S", "structural_differentiation", "causal_density"}
          \subseteq DOMAIN ret.args[1]
    /\ DOMAIN ret.args[1] \cap {"D", "M", "memory_persistence"} = {}
    /\ ret.value.S \notin {ret.args[1]["S"], ret.args[1]["structural_differentiation"]}
    /\ ret.value.S > 0
    /\ ret.value.D = ret.args[1]["causal_density"]
    /\ ret.value.M = 50

\* direct key and alias both given with different values, no network
C6_WitnessBoth ==
    /\ ret.op = "predict"
    /\ "network" \notin DOMAIN ret.args[1]
    /\ {"S", "structural_differentiation"} \subseteq DOMAIN ret.args[1]
    /\ ret.args[1]["S"] # ret.args[1]["structural_differentiation"]
    /\ ret.value.S = ret.args[1]["S"]

\* C7: predict_from_network yields the record predict yields for
\* S = compute_structural_differentiation(network),
\* D = causality.current_density, M = memory.persistence; the stored
\* memories and the proto-language list play no part.
C7_SugarForPredict ==
    ret.op = "predict_from_network" =>
        LET S == compute_structural_differentiation(network)
            D == causality.current_density
            M == memory.persistence
        IN  /\ ret.value.S = S
            /\ ret.value.D = D
            /\ ret.value.M = M
            /\ ret.value = predict_state(SDM(S, D, M))
            /\ predictions = <<ret.value>>

\* a memory holding traces stronger than its persistence scalar, a network
\* with edges and a causality engine with events
C7_Witness ==
    /\ ret.op = "predict_from_network"
    /\ DOMAIN memory.memories # {}
    /\ memory.proto_language # <<>>
    /\ memory.persistence = 50
    /\ ret.value.M = 50
    /\ ret.value.S > 0
    /\ causality.events # <<>>
    /\ ret.value.D > 0

\* C8: get_summary returns total = length of the history, cognitive = the
\* number of records with phi = 1, non_cognitive = the number with phi = 0,
\* and cognitive_rate = cognitive / total when total > 0; on an empty
\* history it returns zeros and no cognitive_rate key.  It leaves the
\* history as it is.
C8_SummaryCounts ==
    [][ ret'.op = "get_summary" =>
            LET s == ret'.value
                ones == {i \in 1..Len(predictions) : predictions[i].phi = 1}
                zeros == {i \in 1..Len(predictions) : predictions[i].phi = 0}
            IN  /\ predictions' = predictions
                /\ s["total"] = Len(predictions)
                /\ s["cognitive"] = Cardinality(ones)
                /\ s["non_cognitive"] = Cardinality(zeros)
                /\ s["cognitive"] + s["non_cognitive"] = s["total"]
                /\ IF Len(predictions) > 0
                   THEN /\ DOMAIN s = {"total", "cognitive", "non_cognitive", "cognitive_rate"}
                        /\ s["cognitive_rate"] = (1000 * Cardinality(ones)) \div Len(predictions)
                   ELSE /\ DOMAIN s = {"total", "cognitive", "non_cognitive"}
                        /\ s["total"] = 0 /\ s["cognitive"] = 0 /\ s["non_cognitive"] = 0
      ]_vars

\* a summary over one cognitive and one non-cognitive record
C8_Witness ==
    /\ ret.op = "get_summary"
    /\ Len(predictions) = 2
    /\ ret.value["total"] = 2
    /\ ret.value["cognitive"] = 1
    /\ ret.value["non_cognitive"] = 1
    /\ ret.value["cognitive_rate"] = 500

\* a summary of an engine that has predicted nothing
C8_WitnessEmpty ==
    /\ ret.op = "get_summary"
    /\ predictions = <<>>
    /\ detection_history = <<>>
    /\ DOMAIN ret.value = {"total", "cognitive", "non_cognitive"}

--------------------------------------------------------------------------
(* The causality engine *)

RegisterEvent(src, dst, strength) ==
    /\ causality' = register_event(causality, src, dst, strength)
    /\ ret' = [op |-> "register_event", args |-> <<src, dst, strength>>, value |-> 0]
    /\ UNCHANGED <<network, memory, predictions, detection_history, args>>

GetCausalChain(start, max_depth) ==
    /\ ret' = [op |-> "get_causal_chain", args |-> <<start, max_depth>>,
               value |-> get_causal_chain(causality, start, max_depth)]
    /\ UNCHANGED <<network, memory, causality, predictions, detection_history, args>>

InitCausality ==
    /\ causality = NewCausality
    /\ network = EmptyNetwork
    /\ memory = NewMemory(50)
    /\ predictions = <<>>
    /\ detection_history = <<>>
    /\ args = NoArgs
    /\ ret = NoCall

\* events among three nodes: a node with two successors, a cycle, a
\* self-loop; "d" is a node no event leaves
ChainEvents ==
    {<<"a", "b", 0>>, <<"a", "c", 600>>, <<"b", "a", 2500>>, <<"c", "c", 1000>>}

ChainStarts == {"a", "b", "c", "d"}

\* short logs, every chain traced
NextCausality ==
    \/ \E e \in ChainEvents :
          /\ Len(causality.events) < MaxLog
          /\ RegisterEvent(e[1], e[2], e[3])
    \/ \E start \in ChainStarts, max_depth \in 0..MaxDepth :
          GetCausalChain(start, max_depth)

SpecCausality == InitCausality /\ [][NextCausality]_vars

\* logs longer than the density window: MaxFree events chosen freely, then
\* one and the same event again and again
Filler == <<"a", "b", 600>>

NextDensity ==
    \/ \E e \in ChainEvents :
          /\ Len(causality.events) < MaxFree
          /\ RegisterEvent(e[1], e[2], e[3])
    \/ /\ Len(causality.events) >= MaxFree
       /\ Len(causality.events) < MaxEvents
       /\ RegisterEvent(Filler[1], Filler[2], Filler[3])
    \/ GetCausalChain("a", 1)

SpecDensity == InitCausality /\ [][NextDensity]_vars

--------------------------------------------------------------------------
(* Properties of the causality engine *)

\* the sum of the strengths of the events at the indices in idx
RECURSIVE StrengthsAt(_, _)
StrengthsAt(events, idx) ==
    IF idx = {} THEN 0
    ELSE IF Cardinality(idx) = 1 THEN events[CHOOSE i \in idx : TRUE][3]
    ELSE LET cut == CHOOSE c \in idx :
                        2 * Cardinality({i \in idx : i <= c}) \in
                            {Cardinality(idx), Cardinality(idx) + 1}
             low == {i \in idx : i <= cut}
         IN  StrengthsAt(events, low) + StrengthsAt(events, idx \ low)

\* C9: current_density is 0 when the log is empty and otherwise
\* min(1, sum of the strengths of the last min(n, 100) events / min(n, 100));
\* events older than the 100 most recent contribute nothing.
C9_DensityOfWindow ==
    LET events == causality.events
        n == Len(events)
        k == IF n <= 100 THEN n ELSE 100
    IN  IF n = 0 THEN causality.current_density = 0
        ELSE causality.current_density =
                 Min(1000, StrengthsAt(events, (n - k + 1)..n) \div k)

\* more than 100 events, the oldest of them strong enough to change the
\* mean of the whole log, and a density that is the mean of the last 100
C9_Witness ==
    LET events == causality.events
    IN  /\ Len(events) > 100
        /\ events[1][3] = 2500
        /\ causality.current_density = 600
        /\ StrengthsAt(events, 1..Len(events)) \div Len(events) > 600

\* the density clamped to 1 by one strong event
C9_WitnessClamp ==
    /\ Len(causality.events) = 1
    /\ causality.events[1][3] = 2500
    /\ causality.current_density = 1000

\* the greatest index of an event whose source is node (0 when none)
LastOutgoing(events, node) ==
    LET out == {i \in 1..Len(events) : events[i][1] = node}
    IN  IF out = {} THEN 0 ELSE CHOOSE i \in out : \A j \in out : j <= i

ChainCorrect(chain, start, max_depth, events) ==
    /\ Len(chain) >= 1
    /\ chain[1] = start
    /\ Len(chain) <= max_depth + 1
    /\ \A i \in 1..(Len(chain) - 1) :
          /\ LastOutgoing(events, chain[i]) # 0
          /\ chain[i + 1] = events[LastOutgoing(events, chain[i])][2]
    /\ \/ Len(chain) = max_depth + 1
       \/ LastOutgoing(events, chain[Len(chain)]) = 0
    /\ LastOutgoing(events, start) = 0 => chain = <<start>>

\* C10: get_causal_chain(start, max_depth), max_depth >= 0, returns a
\* sequence that begins with start, follows at each node the greatest-index
\* event leaving it, and stops at the first node no event leaves or after
\* max_depth hops: at most max_depth + 1 elements also on a cycle, and
\* <<start>> when no event leaves start.  The call changes neither the log
\* nor current_density.
C10_GreedyChain ==
    [][ ret'.op = "get_causal_chain" =>
            /\ causality' = causality
            /\ ChainCorrect(ret'.value, ret'.args[1], ret'.args[2], causality.events)
      ]_vars

\* a start with two outgoing events, the later one followed into a
\* self-loop that is walked until max_depth hops are made
C10_Witness ==
    /\ ret.op = "get_causal_chain"
    /\ ret.args = <<"a", 3>>
    /\ ret.value = <<"a", "c", "c", "c">>
    /\ \E i, j \in 1..Len(causality.events) :
          /\ i < j
          /\ causality.events[i] = <<"a", "b", 0>>
          /\ causality.events[j] = <<"a", "c", 600>>
    /\ causality.current_density > 0

--------------------------------------------------------------------------
(* The memory module: one action per method *)

Store(key, strength) ==
    /\ memory' = store(memory, key, strength)
    /\ ret' = [op |-> "store", args |-> <<key, strength>>, value |-> 0]
    /\ UNCHANGED <<network, causality, predictions, detection_history, args>>

Recall(key) ==
    /\ ret' = [op |-> "recall", args |-> <<key>>, value |-> recall(memory, key)]
    /\ UNCHANGED <<network, memory, causality, predictions, detection_history, args>>

Decay ==
    /\ memory' = decay(memory)
    /\ ret' = [op |-> "decay", args |-> <<>>, value |-> 0]
    /\ UNCHANGED <<network, causality, predictions, detection_history, args>>

FormProtoLanguage(pattern) ==
    /\ memory' = form_proto_language(memory, pattern)
    /\ ret' = [op |-> "form_proto_language", args |-> <<pattern>>, value |-> 0]
    /\ UNCHANGED <<network, causality, predictions, detection_history, args>>

\* persistence is fixed at construction: none, the default, full
Persistences == {0, 50, 1000}

MemoryKeys == {"k1", "k2"}

\* a full strength and a strength of exactly 0.01
StoredStrengths == {1000, 10}

Patterns == {"hub", "chain"}

InitMemory ==
    /\ memory \in {NewMemory(p) : p \in Persistences}
    /\ network = EmptyNetwork
    /\ causality = NewCausality
    /\ predictions = <<>>
    /\ detection_history = <<>>
    /\ args = NoArgs
    /\ ret = NoCall

NextMemory ==
    \/ \E key \in MemoryKeys, strength \in StoredStrengths : Store(key, strength)
    \/ \E key \in MemoryKeys : Recall(key)
    \/ Decay
    \/ \E pattern \in Patterns : FormProtoLanguage(pattern)

SpecMemory == InitMemory /\ [][NextMemory]_vars

\* the strength a stored strength has after one decay
Faded(strength, persistence) == (strength * (9000 + persistence)) \div 10000

\* C11: a decay multiplies every strength by 1 - (1 - persistence) * 0.1 and
\* then removes exactly the keys whose new strength is below 0.01, a key at
\* 0.01 or above being kept: after it no entry is below 0.01, an empty map
\* stays empty, persistence and the proto-language list are as before.
C11_DecayPurgesBelowThreshold ==
    [][ ret'.op = "decay" =>
          /\ DOMAIN memory'.memories =
                {k \in DOMAIN memory.memories :
                    Faded(memory.memories[k], memory.persistence) >= 10}
          /\ \A k \in DOMAIN memory'.memories :
                /\ memory'.memories[k] = Faded(memory.memories[k], memory.persistence)
                /\ ~(memory'.memories[k] < 10)
          /\ (memory.memories = EmptyDict => memory'.memories = EmptyDict)
          /\ memory'.persistence = memory.persistence
          /\ memory'.proto_language = memory.proto_language
      ]_vars

\* a decay has kept a strength of exactly 0.01 next to a full one
C11_Witness ==
    /\ ret.op = "decay"
    /\ memory.persistence = 1000
    /\ DOMAIN memory.memories = MemoryKeys
    /\ memory.memories["k1"] = 10
    /\ memory.memories["k2"] = 1000

\* a decay without persistence has left one faded key and purged the rest
C11_WitnessPurge ==
    /\ ret.op = "decay"
    /\ memory.persistence = 0
    /\ DOMAIN memory.memories = {"k2"}
    /\ memory.memories["k2"] = 900
    /\ memory.proto_language = <<"hub">>

\* C12: recall returns the strength the map holds for the key (the last
\* stored value, scaled by every decay since) and 0.0 for a key the map does
\* not hold, and changes nothing; store sets the key's strength whatever it
\* was and leaves every other key alone; form_proto_language leaves the map
\* alone; a decay scales what it keeps.
C12_RecallReadsStoreOverwrites ==
    [][ /\ ret'.op = "recall" =>
              /\ memory' = memory
              /\ ret'.value = IF ret'.args[1] \in DOMAIN memory.memories
                              THEN memory.memories[ret'.args[1]]
                              ELSE 0
        /\ ret'.op = "store" =>
              /\ DOMAIN memory'.memories = DOMAIN memory.memories \cup {ret'.args[1]}
              /\ memory'.memories[ret'.args[1]] = ret'.args[2]
              /\ \A k \in DOMAIN memory.memories \ {ret'.args[1]} :
                    memory'.memories[k] = memory.memories[k]
        /\ ret'.op = "form_proto_language" => memory'.memories = memory.memories
        /\ ret'.op = "decay" =>
              \A k \in DOMAIN memory'.memories :
                    /\ k \in DOMAIN memory.memories
                    /\ memory'.memories[k] = Faded(memory.memories[k], memory.persistence)
      ]_vars

\* recall has returned a strength stored as 1.0 and decayed twice since
C12_Witness ==
    /\ ret.op = "recall"
    /\ ret.args = <<"k1">>
    /\ memory.persistence = 0
    /\ ret.value = 810
    /\ memory.proto_language # <<>>

\* recall has returned 0.0 for a key the map does not hold
C12_WitnessMissing ==
    /\ ret.op = "recall"
    /\ ret.args = <<"k1">>
    /\ ret.value = 0
    /\ DOMAIN memory.memories = {"k2"}

\* store has overwritten a decayed strength
C12_WitnessOverwrite ==
    /\ ret.op = "store"
    /\ ret.args = <<"k1", 10>>
    /\ memory.memories["k1"] = 10
    /\ "k2" \in DOMAIN memory.memories
    /\ memory.memories["k2"] = 729

\* the patterns of a proto-language list
PatternsOf(list) == {list[i] : i \in 1..Len(list)}

\* C13: the proto-language list never holds a pattern twice; a call of
\* form_proto_language with a pattern the list holds leaves the list as it
\* is, a call with a new pattern puts it at the end, so that the list holds
\* every pattern ever passed in the order of first insertion; no store,
\* decay or recall removes or reorders a pattern.
C13_ProtoLanguageInsertionOrdered ==
    [][ /\ ret'.op = "form_proto_language" =>
              memory'.proto_language =
                  IF ret'.args[1] \in PatternsOf(memory.proto_language)
                  THEN memory.proto_language
                  ELSE Append(memory.proto_language, ret'.args[1])
        /\ ret'.op \in {"store", "decay", "recall"} =>
              memory'.proto_language = memory.proto_language
        /\ \A i, j \in 1..Len(memory'.proto_language) :
              memory'.proto_language[i] = memory'.proto_language[j] => i = j
      ]_vars

\* both patterns were passed, "chain" first, and the last call passed a
\* pattern the list already held
C13_Witness ==
    /\ ret.op = "form_proto_language"
    /\ ret.args = <<"chain">>
    /\ memory.proto_language = <<"chain", "hub">>

\* the list has come through a store and a decay
C13_WitnessDecay ==
    /\ ret.op = "decay"
    /\ memory.proto_language = <<"hub", "chain">>
    /\ memory.memories # EmptyDict

--------------------------------------------------------------------------
(* The network: one call on a network built by add_node and add_edge *)

MaxSteps == 2      \* greatest `steps` passed to propagate
MaxHub == 10       \* nodes of the greatest star network

Propagate(steps) ==
    /\ network' = propagate(network, steps)
    /\ ret' = [op |-> "propagate", args |-> <<steps>>, value |-> 0]
    /\ UNCHANGED <<memory, causality, predictions, detection_history, args>>

GetDegreeDistribution ==
    /\ ret' = [op |-> "get_degree_distribution", args |-> <<>>,
               value |-> get_degree_distribution(network)]
    /\ UNCHANGED <<network, memory, causality, predictions, detection_history, args>>

ComputeStructuralDifferentiation ==
    /\ ret' = [op |-> "compute_structural_differentiation", args |-> <<>>,
               value |-> compute_structural_differentiation(network)]
    /\ UNCHANGED <<network, memory, causality, predictions, detection_history, args>>

\* f"node_{i}"
NodeName(i) == "node_" \o ToString(i)

\* the star of the structural-differentiation test: n nodes, node_0 linked
\* to each of the others
StarNetwork(n) ==
    AddEdges(AddNodes(EmptyNetwork, {NodeName(i) : i \in 0..(n - 1)}),
             {<<"node_0", NodeName(i)>> : i \in 1..(n - 1)})

Activations == {-500, 0, 1000}
Weights == {500, -1000}

\* what add_node and add_edge build from the activations a and the weights w
Built(a, w) ==
    [nodes |-> [n \in DOMAIN a |-> [activation |-> a[n]]],
     edges |-> [e \in DOMAIN w |-> [weight |-> w[e], causal_strength |-> 500]]]

\* networks whose nodes are active: node_2 is never a node, so that an edge
\* from it or to it has a missing endpoint
ActiveNetworks ==
    UNION {{Built(a, w) : a \in [ids -> Activations], w \in [pairs -> Weights]} :
              ids \in SUBSET {"node_0", "node_1"},
              pairs \in {es \in SUBSET (NodeIds \X NodeIds) : Cardinality(es) <= MaxEdges}}

NetworkInputs ==
    Networks \cup ActiveNetworks \cup {StarNetwork(n) : n \in 2..MaxHub}

InitNetwork ==
    /\ network \in NetworkInputs
    /\ args = [kind |-> "network", network |-> network]
    /\ memory = NewMemory(50)
    /\ causality = NewCausality
    /\ predictions = <<>>
    /\ detection_history = <<>>
    /\ ret = NoCall

CallPropagate ==
    /\ ret.op = "none"
    /\ \E steps \in 0..MaxSteps : Propagate(steps)

CallGetDegreeDistribution ==
    /\ ret.op = "none"
    /\ GetDegreeDistribution

CallComputeStructuralDifferentiation ==
    /\ ret.op = "none"
    /\ ComputeStructuralDifferentiation

NextNetwork ==
    \/ CallPropagate
    \/ CallGetDegreeDistribution
    \/ CallComputeStructuralDifferentiation

SpecNetwork == InitNetwork /\ [][NextNetwork]_vars

\* the activation the claim gives a node after one step: 0.9 * old plus
\* 0.1 * tanh of the sum, over the nodes that have an edge to it, of that
\* node's activation before the step times the edge's weight
ClaimedActivation(net, n) ==
    LET sources == {s \in DOMAIN net.nodes : <<s, n>> \in DOMAIN net.edges}
        incoming ==
            SumOver([s \in sources |-> net.nodes[s].activation * net.edges[<<s, n>>].weight],
                    sources) \div 1000
    IN  (900 * net.nodes[n].activation + 100 * tanh(incoming)) \div 1000

RECURSIVE ClaimedAfter(_, _)
ClaimedAfter(net, steps) ==
    IF steps = 0 THEN net
    ELSE ClaimedAfter(
             [nodes |-> [n \in DOMAIN net.nodes |->
                            [activation |-> ClaimedActivation(net, n)]],
              edges |-> net.edges],
             steps - 1)

\* C14: each step of propagate sets every node's activation to
\* 0.9 * old + 0.1 * tanh(incoming), incoming summing source activation
\* times weight over the edges into the node whose source is a node, every
\* source activation read from the state before the step; the node ids,
\* the edges, their weights and causal strengths stay as they were, and an
\* edge with a missing endpoint creates no node.
C14_PropagateSimultaneous ==
    ret.op = "propagate" =>
        /\ network = ClaimedAfter(args.network, ret.args[1])
        /\ DOMAIN network.nodes = DOMAIN args.network.nodes
        /\ network.edges = args.network.edges

\* one step on two active nodes that feed each other: each new activation
\* depends on the other's old one
C14_Witness ==
    /\ ret.op = "propagate"
    /\ ret.args = <<1>>
    /\ DOMAIN args.network.nodes = {"node_0", "node_1"}
    /\ DOMAIN args.network.edges = {<<"node_0", "node_1">>, <<"node_1", "node_0">>}
    /\ args.network.nodes["node_0"].activation = 1000
    /\ args.network.nodes["node_1"].activation = -500
    /\ args.network.edges[<<"node_1", "node_0">>].weight = -1000
    /\ args.network.edges[<<"node_0", "node_1">>].weight = 500
    /\ network.nodes["node_0"].activation = 946
    /\ network.nodes["node_1"].activation = -404

\* two steps on a node whose only edges come from and go to a missing node
C14_WitnessMissing ==
    /\ ret.op = "propagate"
    /\ ret.args = <<2>>
    /\ DOMAIN args.network.edges = {<<"node_2", "node_1">>, <<"node_1", "node_2">>}
    /\ DOMAIN args.network.nodes = {"node_1"}
    /\ DOMAIN network.nodes = {"node_1"}
    /\ args.network.nodes["node_1"].activation = 1000
    /\ network.nodes["node_1"].activation = 810

\* the nodes of a network that are an endpoint of at least one of its edges
NodesWithEdge(net) ==
    {n \in DOMAIN net.nodes : \E e \in DOMAIN net.edges : e[1] = n \/ e[2] = n}

\* C15: get_degree_distribution returns one integer per node that has an
\* incident edge and nothing for any other node: a node without edge is
\* absent, an endpoint that is not a node has no entry, every value is at
\* least 1, and there are as many values as nodes with an incident edge.
C15_DegreesOfTouchedNodes ==
    ret.op = "get_degree_distribution" =>
        /\ DOMAIN ret.value = NodesWithEdge(network)
        /\ DOMAIN ret.value \subseteq DOMAIN network.nodes
        /\ \A n \in DOMAIN ret.value : ret.value[n] >= 1
        /\ Cardinality(DOMAIN ret.value) = Cardinality(NodesWithEdge(network))

\* a node with an edge to a missing node, beside a node without edge
C15_Witness ==
    /\ ret.op = "get_degree_distribution"
    /\ DOMAIN network.nodes = {"node_0", "node_1"}
    /\ DOMAIN network.edges = {<<"node_0", "node_2">>}
    /\ DOMAIN ret.value = {"node_0"}
    /\ ret.value["node_0"] = 1

\* C16: in get_degree_distribution an edge is counted once per endpoint
\* match: a node's count is the number of edges it is the source of plus
\* the number of edges it is the destination of, so that a self-loop adds 2
\* and an edge between two nodes adds 1 to each of them.
C16_EdgeCountedPerEndpoint ==
    ret.op = "get_degree_distribution" =>
        \A n \in DOMAIN ret.value :
            ret.value[n] =
                Cardinality({e \in DOMAIN network.edges : e[1] = n})
                + Cardinality({e \in DOMAIN network.edges : e[2] = n})

--------------------------------------------------------------------------
(* The detector: detect between calls that change the components *)

MaxDetections == 2

\* a detector that ages the memory it inspects
Detect_decaying ==
    /\ Len(detection_history) < MaxDetections
    /\ LET emergences == detect(network, memory, causality)
       IN  /\ detection_history' = record_detection(detection_history, emergences)
           /\ ret' = [op |-> "detect", args |-> <<>>, value |-> emergences]
    /\ memory' = decay(memory)
    /\ UNCHANGED <<network, causality, predictions, args>>

Detect ==
    /\ Len(detection_history) < MaxDetections
    /\ LET emergences == detect(network, memory, causality)
       IN  /\ detection_history' = record_detection(detection_history, emergences)
           /\ ret' = [op |-> "detect", args |-> <<>>, value |-> emergences]
    /\ UNCHANGED <<network, memory, causality, predictions, args>>

AddNode(node_id, activation) ==
    /\ network' = add_node(network, node_id, activation)
    /\ ret' = [op |-> "add_node", args |-> <<node_id, activation>>, value |-> 0]
    /\ UNCHANGED <<memory, causality, predictions, detection_history, args>>

AddEdge(src, dst, weight, causal_strength) ==
    /\ network' = add_edge(network, src, dst, weight, causal_strength)
    /\ ret' = [op |-> "add_edge", args |-> <<src, dst, weight, causal_strength>>,
               value |-> 0]
    /\ UNCHANGED <<memory, causality, predictions, detection_history, args>>

\* a memory of default persistence after a store of 1.0 under each key
MemoryWith(keys) ==
    [persistence |-> 50, memories |-> [k \in keys |-> 1000], proto_language |-> <<>>]

FiveKeys == {"k1", "k2", "k3", "k4", "k5"}

\* the components as their owner has built them: no network or a star one
\* edge short of a hub, no memory or a memory one key short of persistence
InitDetect ==
    /\ network \in {EmptyNetwork, StarNetwork(4)}
    /\ memory \in {NewMemory(50), MemoryWith(FiveKeys)}
    /\ causality = NewCausality
    /\ predictions = <<>>
    /\ detection_history = <<>>
    /\ args = NoArgs
    /\ ret = NoCall

\* a density of exactly 0.2 and a density above it
DetectStrengths == {200, 600}

NextDetect ==
    \/ Detect
    \/ AddNode("node_4", 0)
    \/ AddEdge("node_0", "node_4", 500, 500)
    \/ Store("k6", 1000)
    \/ FormProtoLanguage("hub")
    \/ \E strength \in DetectStrengths :
          /\ causality.events = <<>>
          /\ RegisterEvent("a", "b", strength)

SpecDetect == InitDetect /\ [][NextDetect]_vars

\* the four checks in the order detect makes them
DetectOrder ==
    <<"structural_hub", "causal_coherence", "memory_persistence", "proto_language">>

\* the condition the claim gives for a record of the type
DetectCondition(type, net, mem, caus) ==
    LET d == get_degree_distribution(net)
    IN  CASE type = "structural_hub" ->
                 /\ DOMAIN d # {}
                 /\ \E n \in DOMAIN d :
                       d[n] * Cardinality(DOMAIN d) > 2 * SumOver(d, DOMAIN d)
          [] type = "causal_coherence" -> caus.current_density > 200
          [] type = "memory_persistence" -> Cardinality(DOMAIN mem.memories) > 5
          [] type = "proto_language" -> mem.proto_language # <<>>

\* C17: detect returns, in the order structural_hub, causal_coherence,
\* memory_persistence, proto_language, one record for each check that
\* holds: the degree distribution is non-empty and max_degree is above twice
\* the average; current_density is above 0.2; more than 5 keys are stored;
\* the proto-language list is non-empty.  Every call appends one entry
\* {emergences, count} to detection_history, count being the number of
\* records, also when there is none; entries already there stay as they are.
C17_DetectFourChecks ==
    [][ /\ ret'.op = "detect" =>
              LET Holds(type) == DetectCondition(type, network, memory, causality)
              IN  /\ [i \in 1..Len(ret'.value) |-> ret'.value[i].type]
                        = SelectSeq(DetectOrder, Holds)
                  /\ detection_history' =
                        Append(detection_history,
                               [emergences |-> ret'.value, count |-> Len(ret'.value)])
        /\ Len(detection_history') >= Len(detection_history)
        /\ \A i \in 1..Len(detection_history) :
              detection_history'[i] = detection_history[i]
      ]_vars

\* a call that has emitted all four records, after a call that emitted none
C17_Witness ==
    /\ ret.op = "detect"
    /\ Len(ret.value) = 4
    /\ Len(detection_history) = 2
    /\ detection_history[1] = [emergences |-> <<>>, count |-> 0]
    /\ detection_history[2].count = 4

\* a call that has emitted the hub and the memory record only
C17_WitnessSubset ==
    /\ ret.op = "detect"
    /\ Len(ret.value) = 2
    /\ ret.value[1].type = "structural_hub"
    /\ ret.value[2].type = "memory_persistence"
    /\ causality.current_density = 200

--------------------------------------------------------------------------
(* The whole system: the reading calls on components built beforehand *)

\* a node with a self-loop and an edge to a missing node
LoopNetwork ==
    AddEdges(AddNodes(EmptyNetwork, {"node_0"}),
             {<<"node_0", "node_0">>, <<"node_0", "node_1">>})

SystemNetworks == {EmptyNetwork, HubNetwork, StarNetwork(5), LoopNetwork}

SystemMemories ==
    {NewMemory(50),
     form_proto_language(MemoryWith(FiveKeys \cup {"k6"}), "hub"),
     [persistence |-> 1000, memories |-> [k \in {"k1"} |-> 10], proto_language |-> <<>>]}

SystemCausalities ==
    {NewCausality,
     register_event(NewCausality, "a", "b", 600),
     register_event(register_event(NewCausality, "a", "b", 0), "b", "c", 2500)}

InitSystem ==
    /\ network \in SystemNetworks
    /\ memory \in SystemMemories
    /\ causality \in SystemCausalities
    /\ predictions = <<>>
    /\ detection_history = <<>>
    /\ args = NoArgs
    /\ ret = NoCall

\* params that hand the network to predict, alone or beside D and M
NetworkParams(net) ==
    {"network" :> net,
     ("network" :> net) @@ ("D" :> 600) @@ ("memory_persistence" :> 100)}

NextSystem ==
    \/ Detect
    \/ \E params \in NetworkParams(network) : Predict(params)
    \/ PredictFromNetwork
    \/ ComputeStructuralDifferentiation
    \/ GetDegreeDistribution

SpecSystem == InitSystem /\ [][NextSystem]_vars

\* C18: detect, predict with a network argument, predict_from_network,
\* compute_structural_differentiation and get_degree_distribution leave the
\* network's nodes, activations and edges, the memory's strengths,
\* persistence and proto-language list, and the causality engine's event log
\* and current_density exactly as they were before the call.
C18_ReadersLeaveComponents ==
    [][ ret'.op \in {"detect", "predict", "predict_from_network",
                     "compute_structural_differentiation", "get_degree_distribution"} =>
          /\ network'.nodes = network.nodes
          /\ network'.edges = network.edges
          /\ memory'.memories = memory.memories
          /\ memory'.persistence = memory.persistence
          /\ memory'.proto_language = memory.proto_language
          /\ causality'.events = causality.events
          /\ causality'.current_density = causality.current_density
      ]_vars

\* two detections and two predictions made on a hub network, a memory of
\* six keys and an engine with an event, and a degree distribution read last
C18_Witness ==
    /\ ret.op = "get_degree_distribution"
    /\ Len(detection_history) = 2
    /\ detection_history[2].count = 4
    /\ Len(predictions) = 2
    /\ network = StarNetwork(5)
    /\ Cardinality(DOMAIN memory.memories) = 6
    /\ memory.proto_language = <<"hub">>
    /\ causality.current_density = 600

\* C19: compute_structural_differentiation returns a value for every
\* network, a network without nodes, with nodes that no edge touches, or
\* with edges whose endpoints are all missing among them; the value lies in
\* [0, 1] and is 0 whenever the degree distribution is empty.
C19_DifferentiationTotal ==
    ret.op = "compute_structural_differentiation" =>
        /\ ret.value \in 0..1000
        /\ NodesWithEdge(network) = {} => ret.value = 0

\* the call has returned 0 for a node beside an edge between missing nodes
C19_Witness ==
    /\ ret.op = "compute_structural_differentiation"
    /\ DOMAIN network.nodes = {"node_0"}
    /\ DOMAIN network.edges = {<<"node_1", "node_2">>}
    /\ ret.value = 0

\* the call has returned 0 for a network without node and without edge
C19_WitnessEmpty ==
    /\ ret.op = "compute_structural_differentiation"
    /\ network = EmptyNetwork
    /\ ret.value = 0

\* the call has returned 0 for three nodes without edge
C19_WitnessNoEdge ==
    /\ ret.op = "compute_structural_differentiation"
    /\ DOMAIN network.nodes = NodeIds
    /\ network.edges = EmptyDict
    /\ ret.value = 0

\* a network of at least two nodes whose edges go from one node, the hub,
\* to each of the others
IsStar(net) ==
    /\ Cardinality(DOMAIN net.nodes) >= 2
    /\ \E hub \in DOMAIN net.nodes :
          DOMAIN net.edges = {<<hub, n>> : n \in DOMAIN net.nodes \ {hub}}

\* C20: for a star network of n >= 2 nodes the hub score
\* min(1, max_degree / (count * 0.3)), with max_degree = n - 1 and
\* count = n, is 1, and compute_structural_differentiation returns at
\* least half of it, a value above 0.3.
C20_StarAboveThreshold ==
    ret.op = "compute_structural_differentiation" /\ IsStar(network) =>
        LET n == Cardinality(DOMAIN network.nodes)
        IN  /\ 10 * (n - 1) >= 3 * n
            /\ ret.value >= 500
            /\ ret.value > 300

\* the star of ten nodes of the test
C20_Witness ==
    /\ ret.op = "compute_structural_differentiation"
    /\ network = StarNetwork(10)
    /\ IsStar(network)
    /\ ret.value > 300

\* the smallest star: two nodes, one edge
C20_WitnessPair ==
    /\ ret.op = "compute_structural_differentiation"
    /\ network = StarNetwork(2)
    /\ ret.value = 500

--------------------------------------------------------------------------
(* create_minimal_cognitive_system: the random choices are free choices *)

MaxNodes == 2      \* greatest num_nodes passed to the constructor

\* random.uniform(-0.1, 0.1): both endpoints
RandomActivations == {-100, 100}

\* random.uniform(0.3, 0.7): both endpoints
RandomWeights == {300, 700}

\* the pairs the edge loop may connect, self-loops among them
candidate_edges_all(nodes) == nodes \X nodes

\* the pairs the edge loop may connect: `src != dst`
candidate_edges(nodes) == {e \in nodes \X nodes : e[1] # e[2]}

\* the edge sets `random.random() < connectivity` can leave: random() lies
\* in [0, 1), so no pair passes for connectivity <= 0, every pair passes for
\* connectivity >= 1, and any pair may pass or fail in between
edge_choices(nodes, connectivity) ==
    IF connectivity <= 0 THEN {{}}
    ELSE IF connectivity >= 1000 THEN {candidate_edges(nodes)}
    ELSE SUBSET candidate_edges(nodes)

\* every tuple (network, memory, causality, detector) the call can return
create_minimal_cognitive_system(num_nodes, connectivity, memory_persistence) ==
    LET nodes == {NodeName(i) : i \in 0..(num_nodes - 1)}
    IN  {[network |->
             [nodes |-> [n \in nodes |-> [activation |-> a[n]]],
              edges |-> [e \in DOMAIN w |->
                            [weight |-> w[e][1], causal_strength |-> w[e][2]]]],
          memory |-> NewMemory(memory_persistence),
          causality |-> NewCausality,
          detector |-> <<>>] :
            a \in [nodes -> RandomActivations],
            w \in UNION {[pairs -> RandomWeights \X RandomWeights] :
                            pairs \in edge_choices(nodes, connectivity)}}


CreateMinimalCognitiveSystem(num_nodes, connectivity, memory_persistence) ==
    /\ \E made \in create_minimal_cognitive_system(num_nodes, connectivity,
                                                   memory_persistence) :
          /\ network' = made.network
          /\ memory' = made.memory
          /\ causality' = made.causality
          /\ detection_history' = made.detector
          /\ ret' = [op |-> "create_minimal_cognitive_system",
                     args |-> <<num_nodes, connectivity, memory_persistence>>,
                     value |-> made]
    /\ UNCHANGED <<predictions, args>>

\* no edge ever, some edges, every edge
Connectivities == {0, 100, 1000}

\* the names the result is bound to hold nothing yet, or the components of
\* an earlier system that has been used
InitCreate ==
    /\ args \in {[kind |-> "create", num_nodes |-> n, connectivity |-> c,
                  memory_persistence |-> p] :
                    n \in 0..MaxNodes, c \in Connectivities, p \in Persistences}
    /\ \/ /\ network = EmptyNetwork
          /\ memory = NewMemory(50)
          /\ causality = NewCausality
          /\ detection_history = <<>>
       \/ /\ network = LoopNetwork
          /\ memory = form_proto_language(MemoryWith(FiveKeys), "hub")
          /\ causality = register_event(NewCausality, "a", "b", 600)
          /\ detection_history = record_detection(<<>>, <<>>)
    /\ predictions = <<>>
    /\ ret = NoCall

CallCreateMinimalCognitiveSystem ==
    /\ ret.op = "none"
    /\ CreateMinimalCognitiveSystem(args.num_nodes, args.connectivity,
                                    args.memory_persistence)

NextCreate == CallCreateMinimalCognitiveSystem

SpecCreate == InitCreate /\ [][NextCreate]_vars

\* C21: whatever the random choices, create_minimal_cognitive_system
\* returns a network with exactly the num_nodes nodes node_0 ..
\* node_{num_nodes-1}, every edge joining two distinct nodes of it, a memory
\* of persistence memory_persistence without stored key, a causality engine
\* without event and of density 0, and a detector with an empty history.
C21_FreshSystem ==
    ret.op = "create_minimal_cognitive_system" =>
        /\ DOMAIN network.nodes = {NodeName(i) : i \in 0..(ret.args[1] - 1)}
        /\ Cardinality(DOMAIN network.nodes) = ret.args[1]
        /\ \A e \in DOMAIN network.edges :
              /\ e[1] # e[2]
              /\ e[1] \in DOMAIN network.nodes
              /\ e[2] \in DOMAIN network.nodes
        /\ memory.persistence = ret.args[3]
        /\ memory.memories = EmptyDict
        /\ causality.events = <<>>
        /\ causality.current_density = 0
        /\ detection_history = <<>>

\* a system of two nodes with the one edge node_1 -> node_0
C21_Witness ==
    /\ ret.op = "create_minimal_cognitive_system"
    /\ ret.args = <<2, 100, 50>>
    /\ DOMAIN network.nodes = {"node_0", "node_1"}
    /\ DOMAIN network.edges = {<<"node_1", "node_0">>}
    /\ memory = NewMemory(50)

\* full connectivity: both edges between the two nodes
C21_WitnessFull ==
    /\ ret.op = "create_minimal_cognitive_system"
    /\ ret.args = <<2, 1000, 0>>
    /\ DOMAIN network.edges = {<<"node_0", "node_1">>, <<"node_1", "node_0">>}

--------------------------------------------------------------------------
(* The example networks (src/example_networks.py) and the accuracy test *)

\* an ExampleNetwork: the fields the engine is run on, the expected
\* verdict, and the universality class its notes name ("none" when the
\* notes name no class)
ExampleNetwork(name, S, D, M, expected_cognitive, noted_class) ==
    [name |-> name, S |-> S, D |-> D, M |-> M,
     expected_cognitive |-> expected_cognitive, noted_class |-> noted_class]

C_ELEGANS == ExampleNetwork("C. elegans Connectome", 700, 400, 300, TRUE, "none")
FRUIT_FLY == ExampleNetwork("Drosophila Brain", 750, 500, 400, TRUE, "none")
MOUSE_BRAIN == ExampleNetwork("Mouse Brain", 800, 600, 500, TRUE, "none")
HUMAN_BRAIN == ExampleNetwork("Human Brain", 850, 700, 600, TRUE, "grammar_structural")
BERT_BASE == ExampleNetwork("BERT-base", 300, 800, 100, TRUE, "dense_dynamical")
GPT2 == ExampleNetwork("GPT-2", 350, 850, 150, TRUE, "none")
GPT3 == ExampleNetwork("GPT-3", 400, 900, 200, TRUE, "dense_dynamical")
GPT4 == ExampleNetwork("GPT-4 (estimated)", 450, 920, 250, TRUE, "none")
SIMPLE_MLP == ExampleNetwork("Simple MLP", 200, 300, 10, FALSE, "none")
TWITTER == ExampleNetwork("Twitter/X Network", 900, 200, 50, TRUE, "fast_propagation")
FACEBOOK == ExampleNetwork("Facebook Network", 850, 250, 80, TRUE, "none")
CORPORATE_ORG == ExampleNetwork("Corporate Organization", 800, 300, 150, TRUE, "slow_memory")
SMALL_TEAM == ExampleNetwork("Small Team", 500, 600, 400, TRUE, "none")
GOVERNMENT == ExampleNetwork("Government Bureaucracy", 750, 250, 200, TRUE, "slow_memory")
INTERNET_AS == ExampleNetwork("Internet AS Topology", 900, 300, 20, TRUE, "fast_propagation")
POWER_GRID == ExampleNetwork("US Power Grid", 600, 200, 10, FALSE, "none")
SUPPLY_CHAIN == ExampleNetwork("Global Supply Chain", 800, 150, 30, TRUE, "none")
RAINFOREST == ExampleNetwork("Rainforest Ecosystem", 850, 300, 400, TRUE, "slow_memory")
CORAL_REEF == ExampleNetwork("Coral Reef Ecosystem", 800, 350, 350, TRUE, "none")

BIOLOGICAL_NETWORKS == <<C_ELEGANS, FRUIT_FLY, MOUSE_BRAIN, HUMAN_BRAIN>>
ARTIFICIAL_NETWORKS == <<BERT_BASE, GPT2, GPT3, GPT4, SIMPLE_MLP>>
SOCIAL_NETWORKS == <<TWITTER, FACEBOOK, CORPORATE_ORG, SMALL_TEAM, GOVERNMENT>>
INFRASTRUCTURE_NETWORKS == <<INTERNET_AS, POWER_GRID, SUPPLY_CHAIN>>
ECOSYSTEM_NETWORKS == <<RAINFOREST, CORAL_REEF>>

ALL_NETWORKS ==
    BIOLOGICAL_NETWORKS \o ARTIFICIAL_NETWORKS \o SOCIAL_NETWORKS
        \o INFRASTRUCTURE_NETWORKS \o ECOSYSTEM_NETWORKS

IsExpectedCognitive(n) == n.expected_cognitive

\* [n for n in ALL_NETWORKS if n.expected_cognitive]
get_cognitive_networks == SelectSeq(ALL_NETWORKS, IsExpectedCognitive)

IsNotExpectedCognitive(n) == ~n.expected_cognitive

\* [n for n in ALL_NETWORKS if not n.expected_cognitive]
get_non_cognitive_networks == SelectSeq(ALL_NETWORKS, IsNotExpectedCognitive)

\* one pass of the loop of test_example_networks_accuracy over the list in
\* args: predict on the (S, D, M) of the next entry
PredictNextExample ==
    /\ Len(predictions) < Len(args.networks)
    /\ LET net == args.networks[Len(predictions) + 1]
           params == SDM(net.S, net.D, net.M)
           r == predict(predictions, params)
       IN  /\ predictions' = r.predictions
           /\ ret' = [op |-> "predict", args |-> <<params>>, value |-> r.value]
    /\ UNCHANGED <<network, memory, causality, detection_history, args>>

\* the loop's tally: the entries predicted so far on which the verdict
\* (phi == 1) agrees with expected_cognitive
correct(networks, preds) ==
    Cardinality({i \in 1..Len(preds) :
                    (preds[i].phi = 1) = networks[i].expected_cognitive})

\* a fresh engine and the list it is run through: the whole table, the
\* list of one category, or the entries of one expected verdict
InitExamples ==
    /\ args \in {[kind |-> "examples", networks |-> l] :
                    l \in {ALL_NETWORKS, BIOLOGICAL_NETWORKS, ARTIFICIAL_NETWORKS,
                           SOCIAL_NETWORKS, INFRASTRUCTURE_NETWORKS,
                           ECOSYSTEM_NETWORKS, get_cognitive_networks,
                           get_non_cognitive_networks}}
    /\ network = EmptyNetwork
    /\ memory = NewMemory(50)
    /\ causality = NewCausality
    /\ predictions = <<>>
    /\ detection_history = <<>>
    /\ ret = NoCall

NextExamples ==
    \/ PredictNextExample
    \/ GetSummary

SpecExamples == InitExamples /\ [][NextExamples]_vars


\* C22: when predict has been run on the (S, D, M) of every entry of
\* ALL_NETWORKS, the verdict (phi == 1) agrees with expected_cognitive on at
\* least 80% of the entries.
C22_ExampleAccuracy ==
    args.kind = "examples" /\ args.networks = ALL_NETWORKS
        /\ Len(predictions) = Len(ALL_NETWORKS) =>
            5 * correct(ALL_NETWORKS, predictions) >= 4 * Len(ALL_NETWORKS)

\* the loop has gone through the nineteen entries of the table, both
\* expected verdicts among them
C22_Witness ==
    /\ args.networks = ALL_NETWORKS
    /\ Len(predictions) = 19
    /\ ret.op = "predict"
    /\ ret.value = predictions[19]
    /\ predictions[9].phi = 0
    /\ ~ALL_NETWORKS[9].expected_cognitive
    /\ predictions[1].phi = 1
    /\ correct(ALL_NETWORKS, predictions) = 19


\* C23: for every example network whose notes name a universality class,
\* predict on its (S, D, M) returns that class.
C23_NotedClassPredicted ==
    args.kind = "examples" =>
        \A i \in 1..Len(predictions) :
            args.networks[i].noted_class # "none" =>
                predictions[i].universality_class = args.networks[i].noted_class

--------------------------------------------------------------------------
(* Verdict and laws *)

\* C24: every record of the prediction history with phi == 1 has
\* "Observation Independence" among its active laws, whatever S, D, M and
\* the class chosen: every class threshold is above the law's bound 0.001.
C24_CognitiveImpliesObservationIndependence ==
    \A i \in 1..Len(predictions) :
        predictions[i].phi = 1 =>
            \E j \in 1..Len(predictions[i].active_laws) :
                predictions[i].active_laws[j] = "Observation Independence"

\* a cognitive record of the class with the greatest threshold
C24_Witness ==
    /\ Len(predictions) = 1
    /\ predictions[1].phi = 1
    /\ predictions[1].universality_class = "dense_dynamical"
    /\ \E j \in 1..Len(predictions[1].active_laws) :
          predictions[1].active_laws[j] = "Observation Independence"

\* a cognitive record whose capacity is exactly its threshold
C24_WitnessBoundary ==
    /\ Len(predictions) = 1
    /\ predictions[1].phi = 1
    /\ predictions[1].capacity = predictions[1].threshold

\* a record that is not cognitive although the law is active
C24_WitnessConverseFails ==
    /\ Len(predictions) = 1
    /\ predictions[1].phi = 0
    /\ \E j \in 1..Len(predictions[1].active_laws) :
          predictions[1].active_laws[j] = "Observation Independence"

--------------------------------------------------------------------------
(* Repeated decay: decay is called again and again, nothing is stored *)

\* none, the default, the greatest persistence below 1, and 1
DecayPersistences == {0, 50, 999, 1000}

\* a full strength, a strength of exactly 0.01, a negative strength
DecayStrengths == {1000, 10, -1000}

\* the memories that store calls have filled before the decays begin
DecayMemories ==
    UNION {{[persistence |-> p, memories |-> m, proto_language |-> <<>>] :
                p \in DecayPersistences, m \in [keys -> DecayStrengths]} :
              keys \in SUBSET MemoryKeys}

InitDecay ==
    /\ memory \in DecayMemories
    /\ network = EmptyNetwork
    /\ causality = NewCausality
    /\ predictions = <<>>
    /\ detection_history = <<>>
    /\ args = NoArgs
    /\ ret = NoCall

NextDecay == Decay

\* the caller keeps calling decay
SpecDecay == InitDecay /\ [][NextDecay]_vars /\ WF_vars(NextDecay)

\* C25: under repeated decay without store no strength ever increases; with
\* 0 <= persistence < 1 every key is eventually purged and the map is empty
\* and stays empty; with persistence = 1 a decay leaves every strength
\* unchanged and never purges a key of strength 0.01 or more.  decay is a
\* function of the memory alone, so a map that one decay leaves as it was is
\* left as it was by every later one and is never emptied: each decay of a
\* map that holds a key, with persistence < 1, has to change the map.
C25_RepeatedDecayEmpties ==
    /\ [][ \A k \in DOMAIN memory'.memories :
              /\ k \in DOMAIN memory.memories
              /\ memory'.memories[k] <= memory.memories[k] ]_vars
    /\ [][ memory.persistence = 1000 =>
              \A k \in DOMAIN memory.memories :
                  memory.memories[k] >= 10 =>
                      /\ k \in DOMAIN memory'.memories
                      /\ memory'.memories[k] = memory.memories[k] ]_vars
    /\ [][ /\ ret'.op = "decay"
           /\ 0 <= memory.persistence /\ memory.persistence < 1000
           /\ memory.memories # EmptyDict
           => memory'.memories # memory.memories ]_vars
    /\ (0 <= memory.persistence /\ memory.persistence < 1000
            => <>[](memory.memories = EmptyDict))

\* the stalled memory: persistence below 1, a key held, and a decay that
\* has left the map as it was
C25_WitnessStalled ==
    /\ ret.op = "decay"
    /\ memory.persistence < 1000
    /\ memory.memories # EmptyDict
    /\ decay(memory).memories = memory.memories

==========================================================================
